---- MODULE Spec2Model ----
(***************************************************************************)
(* Dependency graph and critical-path scheduling engine (lib/dependencies) *)
(* with its storage tables Todo and TaskDependency.                        *)
(*                                                                         *)
(* A JavaScript Map is modelled as a sequence of <<key, value>> pairs in   *)
(* insertion order; arrays are sequences; a Set is a set.                  *)
(* Rows come back from storage in ascending id order (todo rows by id,     *)
(* the dependency rows of one todo by dependsOnId).                        *)
(***************************************************************************)
EXTENDS Integers, Sequences, FiniteSets, TLC

\* ------------------------------------------------------------------ bounds
NumTasks == 3
MaxDur == 3
MaxFailures == 1
MaxCalls == 2
MaxDay == 1
MaxTodos == 4
MaxBatch == 2

\* Number.POSITIVE_INFINITY: larger than every offset the model can reach
Infinity == 1000000

Durations == 1..MaxDur

\* the two request handlers that may be in flight at once
Procs == {"p1", "p2"}

\* Scenario A of the specification: A = 1 (2 days), B = 2 (3 days), C = 3 (1 day)
ScenarioDuration == <<2, 3, 1>>

\* todo: table Todo, id -> [duration, earliestStartDate, isOnCriticalPath, isDraft]
\* taskDependency: table TaskDependency, a set of <<taskId, dependsOnId>>
\*   (one row per pair: the unique index on (taskId, dependsOnId))
\* draftDependency: the rows of TaskDependency whose isDraft is true
\* sequence: the AUTOINCREMENT counter of Todo, the greatest id given so far
\* today: the calendar day new Date() falls on
\* last: what the last finished call returned or threw
\* failures: storage faults injected so far
\* info: the result of the last read-only analysis or bulk preview, as the
\*       client holds it
\* pc, call, local: per handler in flight, its position, arguments, locals
\* calls: calls started so far
VARIABLES todo, taskDependency, draftDependency, sequence, today, last, failures, info,
          pc, call, local, calls

vars == <<todo, taskDependency, draftDependency, sequence, today, last, failures, info,
          pc, call, local, calls>>

\* ------------------------------------------------------- arrays and Maps
RECURSIVE SetToSeq(_)
SetToSeq(S) ==
    IF S = {} THEN <<>>
    ELSE LET m == CHOOSE x \in S : \A y \in S : x <= y
         IN <<m>> \o SetToSeq(S \ {m})

Range(s) == {s[i] : i \in 1..Len(s)}

Includes(s, x) == \E i \in 1..Len(s) : s[i] = x

Reverse(s) == [i \in 1..Len(s) |-> s[Len(s) + 1 - i]]

MapHas(m, k) == \E i \in 1..Len(m) : m[i][1] = k

MapGet(m, k) == m[CHOOSE i \in 1..Len(m) : m[i][1] = k][2]

MapGetOr(m, k, dflt) == IF MapHas(m, k) THEN MapGet(m, k) ELSE dflt

MapSet(m, k, v) ==
    IF MapHas(m, k)
    THEN [i \in 1..Len(m) |-> IF m[i][1] = k THEN <<k, v>> ELSE m[i]]
    ELSE Append(m, <<k, v>>)

MapKeys(m) == [i \in 1..Len(m) |-> m[i][1]]

MapValues(m) == [i \in 1..Len(m) |-> m[i][2]]

\* const v = value; Body(v): the value is computed once
Bind(value, Body(_)) == CHOOSE r \in {Body(v) : v \in {value}} : TRUE

\* x || 0 for a number or undefined
OrZero(m, k) == MapGetOr(m, k, 0)

firstOfTwo(a, b) == a

Max2(a, b) == IF a >= b THEN a ELSE b

secondOfTwo(a, b) == b

Min2(a, b) == IF a <= b THEN a ELSE b

\* Math.max(...values): -Infinity for no argument
RECURSIVE MathMax(_)
MathMax(s) ==
    IF s = <<>> THEN 0 - Infinity
    ELSE Max2(Head(s), MathMax(Tail(s)))

\* ------------------------------------------------------------ the graph
\* buildDependencyGraph: one node per todo row, adjacencyList[id] = the
\* dependsOnId of the rows whose taskId is id
buildDependencyGraph(todos, deps) ==
    LET ids == SetToSeq(DOMAIN todos)
        dependencies(t) == SetToSeq({e[2] : e \in {x \in deps : x[1] = t}})
        dependentTasks(t) == SetToSeq({e[1] : e \in {x \in deps : x[2] = t}})
    IN [nodes |-> [i \in 1..Len(ids) |->
                     <<ids[i], [id |-> ids[i],
                                duration |-> todos[ids[i]].duration,
                                dependencies |-> dependencies(ids[i]),
                                dependentTasks |-> dependentTasks(ids[i]),
                                earliestStartDate |-> todos[ids[i]].earliestStartDate,
                                isOnCriticalPath |-> todos[ids[i]].isOnCriticalPath]>>],
        adjacencyList |-> [i \in 1..Len(ids) |-> <<ids[i], dependencies(ids[i])>>]]

\* ----------------------------------------------------- hasCircularDependency
RECURSIVE dfs(_, _, _), dfsDeps(_, _, _, _)
\* st = [visited, recursionStack, found]; found is the boolean dfs returns
\* dfs with the visited test ahead of the recursion-stack test
dfsVisitedFirst(tempAdjacencyList, nodeId, st) ==
    IF nodeId \in st.visited THEN [st EXCEPT !.found = FALSE]
    ELSE IF nodeId \in st.recursionStack THEN [st EXCEPT !.found = TRUE]
    ELSE LET st1 == [visited |-> st.visited \cup {nodeId},
                     recursionStack |-> st.recursionStack \cup {nodeId},
                     found |-> FALSE]
             r == dfsDeps(tempAdjacencyList,
                          MapGetOr(tempAdjacencyList, nodeId, <<>>), 1, st1)
         IN IF r.found THEN r
            ELSE [r EXCEPT !.recursionStack = @ \ {nodeId}]

dfs(tempAdjacencyList, nodeId, st) ==
    IF nodeId \in st.recursionStack THEN [st EXCEPT !.found = TRUE]
    ELSE IF nodeId \in st.visited THEN [st EXCEPT !.found = FALSE]
    ELSE LET st1 == [visited |-> st.visited \cup {nodeId},
                     recursionStack |-> st.recursionStack \cup {nodeId},
                     found |-> FALSE]
             r == dfsDeps(tempAdjacencyList,
                          MapGetOr(tempAdjacencyList, nodeId, <<>>), 1, st1)
         IN IF r.found THEN r
            ELSE [r EXCEPT !.recursionStack = @ \ {nodeId}]

dfsDeps(tempAdjacencyList, dependencies, i, st) ==
    IF i > Len(dependencies) THEN [st EXCEPT !.found = FALSE]
    ELSE LET r == dfs(tempAdjacencyList, dependencies[i], st)
         IN IF r.found THEN r
            ELSE dfsDeps(tempAdjacencyList, dependencies, i + 1, r)

RECURSIVE dfsRoots(_, _, _, _)
dfsRoots(tempAdjacencyList, keys, i, st) ==
    IF i > Len(keys) THEN [st EXCEPT !.found = FALSE]
    ELSE IF keys[i] \in st.visited
         THEN dfsRoots(tempAdjacencyList, keys, i + 1, st)
         ELSE LET r == dfs(tempAdjacencyList, keys[i], st)
              IN IF r.found THEN r
                 ELSE dfsRoots(tempAdjacencyList, keys, i + 1, r)

\* the temporary graph without the candidate edge
tempAdjacencyUnchanged(graph, newTaskId, newDependencyId) ==
    graph.adjacencyList

tempAdjacency(graph, newTaskId, newDependencyId) ==
    MapSet(graph.adjacencyList, newTaskId,
           Append(MapGetOr(graph.adjacencyList, newTaskId, <<>>), newDependencyId))

\* The objects behind graph.adjacencyList: a Map from task id to an array
\* reference (map), and the arrays the references point to (arrays).
heapOf(graph) ==
    [arrays |-> [i \in 1..Len(graph.adjacencyList) |-> graph.adjacencyList[i][2]],
     map |-> [i \in 1..Len(graph.adjacencyList) |-> <<graph.adjacencyList[i][1], i>>]]

\* the adjacency list that a Map of references stands for
Deref(map, arrays) == [i \in 1..Len(map) |-> <<map[i][1], arrays[map[i][2]]>>]

\* the temporary list taken as the input Map itself, not as a copy of it
aliasAndAppend(heap, newTaskId, newDependencyId) ==
    LET currentDeps == IF MapHas(heap.map, newTaskId)
                       THEN heap.arrays[MapGet(heap.map, newTaskId)]
                       ELSE <<>>
        fresh == Len(heap.arrays) + 1
    IN [arrays |-> Append(heap.arrays, Append(currentDeps, newDependencyId)),
        map |-> MapSet(heap.map, newTaskId, fresh),
        temp |-> MapSet(heap.map, newTaskId, fresh)]

\* new Map(graph.adjacencyList) copies the entries, which still point to the
\* arrays of the input; [...currentDeps, newDependencyId] is a new array; set
\* writes to the copy
cloneAndAppend(heap, newTaskId, newDependencyId) ==
    LET tempAdjacencyList == heap.map
        currentDeps == IF MapHas(tempAdjacencyList, newTaskId)
                       THEN heap.arrays[MapGet(tempAdjacencyList, newTaskId)]
                       ELSE <<>>
        fresh == Len(heap.arrays) + 1
    IN [arrays |-> Append(heap.arrays, Append(currentDeps, newDependencyId)),
        map |-> heap.map,
        temp |-> MapSet(tempAdjacencyList, newTaskId, fresh)]

\* hasCircularDependency on the objects: the boolean it returns and the
\* objects as the call leaves them
hasCircularDependencyOn(heap, nodes, newTaskId, newDependencyId) ==
    Bind(cloneAndAppend(heap, newTaskId, newDependencyId), LAMBDA h :
        [found |-> dfsRoots(Deref(h.temp, h.arrays), MapKeys(nodes), 1,
                            [visited |-> {}, recursionStack |-> {}, found |-> FALSE]).found,
         heap |-> [arrays |-> h.arrays, map |-> h.map]])

hasCircularDependency(graph, newTaskId, newDependencyId) ==
    dfsRoots(tempAdjacency(graph, newTaskId, newDependencyId),
             MapKeys(graph.nodes), 1,
             [visited |-> {}, recursionStack |-> {}, found |-> FALSE]).found

\* ----------------------------------------------------------- topologicalSort
\* in-degrees left at their initial 0
initialInDegreeZero(graph) ==
    [i \in 1..Len(graph.nodes) |-> <<graph.nodes[i][1], 0>>]

\* in-degree of a task = number of tasks it depends on
initialInDegree(graph) ==
    LET keys == MapKeys(graph.nodes)
        zero == [i \in 1..Len(keys) |-> <<keys[i], 0>>]
        F[i \in 0..Len(graph.adjacencyList)] ==
            IF i = 0 THEN zero
            ELSE MapSet(F[i - 1], graph.adjacencyList[i][1],
                        Len(graph.adjacencyList[i][2]))
    IN F[Len(graph.adjacencyList)]

\* every node enqueued at the start, whatever its in-degree
initialQueueAll(inDegree) ==
    inDegree

initialQueue(inDegree) ==
    SelectSeq(inDegree, LAMBDA e : e[2] = 0)

\* the inner for-loop of one dequeue: decrement every successor of currentId
releaseSuccessors(graph, currentId, inDegree, queue) ==
    LET adj == graph.adjacencyList
        F[i \in 0..Len(adj)] ==
            IF i = 0 THEN [inDegree |-> inDegree, queue |-> queue]
            ELSE LET prev == F[i - 1]
                     taskId == adj[i][1]
                 IN IF Includes(adj[i][2], currentId)
                    THEN LET newInDegree == OrZero(prev.inDegree, taskId) - 1
                         IN [inDegree |-> MapSet(prev.inDegree, taskId, newInDegree),
                             queue |-> IF newInDegree = 0
                                       THEN Append(prev.queue, taskId)
                                       ELSE prev.queue]
                    ELSE prev
    IN F[Len(adj)]

RECURSIVE processQueue(_, _, _, _)
processQueue(graph, inDegree, queue, result) ==
    IF Len(queue) = 0 THEN result
    ELSE LET currentId == Head(queue)
             r == releaseSuccessors(graph, currentId, inDegree, Tail(queue))
         IN processQueue(graph, r.inDegree, r.queue, Append(result, currentId))

topologicalSort(graph) ==
    LET inDegree == initialInDegree(graph)
    IN processQueue(graph, inDegree, MapKeys(initialQueue(inDegree)), <<>>)

\* ------------------------------------------------------ calculateCriticalPath
Abs(x) == IF x < 0 THEN 0 - x ELSE x

durationOf(graph, nodeId) == MapGet(graph.nodes, nodeId).duration

\* earliestTimes filled in sorted order only, without the initial pass
noInitialEarliestTimes(graph) ==
    <<>>

\* earliestTimes.set(nodeId, 0) for every node, in node order
initialEarliestTimes(graph) ==
    [i \in 1..Len(graph.nodes) |-> <<graph.nodes[i][1], 0>>]

\* FORWARD PASS over sortedNodes
forwardPass(graph, sortedNodes) ==
    LET F[i \in 0..Len(sortedNodes)] ==
            IF i = 0
            THEN [earliestTimes |-> initialEarliestTimes(graph),
                  earliestFinish |-> <<>>]
            ELSE LET prev == F[i - 1]
                     nodeId == sortedNodes[i]
                     dependencies == MapGetOr(graph.adjacencyList, nodeId, <<>>)
                     D[j \in 0..Len(dependencies)] ==
                         IF j = 0 THEN OrZero(prev.earliestTimes, nodeId)
                         ELSE Max2(D[j - 1],
                                   OrZero(prev.earliestFinish, dependencies[j]))
                     earliestStart == D[Len(dependencies)]
                     finishTime == earliestStart + durationOf(graph, nodeId)
                 IN [earliestTimes |-> MapSet(prev.earliestTimes, nodeId, earliestStart),
                     earliestFinish |-> MapSet(prev.earliestFinish, nodeId, finishTime)]
    IN F[Len(sortedNodes)]

\* the tasks nodeId depends on, taken for its successors
predecessorsAsSuccessors(graph, nodeId) ==
    MapGetOr(graph.adjacencyList, nodeId, <<>>)

\* tasks that depend on nodeId, in adjacencyList order
successorsOf(graph, nodeId) ==
    MapKeys(SelectSeq(graph.adjacencyList, LAMBDA e : Includes(e[2], nodeId)))

\* BACKWARD PASS over the reversed sortedNodes
backwardPass(graph, sortedNodes, projectDuration) ==
    LET order == Reverse(sortedNodes)
        B[i \in 0..Len(order)] ==
            IF i = 0
            THEN [latestFinish |-> [k \in 1..Len(graph.nodes) |->
                                      <<graph.nodes[k][1], projectDuration>>],
                  latestTimes |-> <<>>]
            ELSE LET prev == B[i - 1]
                     nodeId == order[i]
                     successors == successorsOf(graph, nodeId)
                     M[j \in 0..Len(successors)] ==
                         IF j = 0 THEN Infinity
                         ELSE IF MapHas(prev.latestTimes, successors[j])
                              THEN Min2(M[j - 1], MapGet(prev.latestTimes, successors[j]))
                              ELSE M[j - 1]
                     minSuccessorStart == M[Len(successors)]
                     latestFinish ==
                         IF Len(successors) > 0 /\ minSuccessorStart # Infinity
                         THEN MapSet(prev.latestFinish, nodeId, minSuccessorStart)
                         ELSE prev.latestFinish
                     latestStart == MapGet(latestFinish, nodeId) - durationOf(graph, nodeId)
                 IN [latestFinish |-> latestFinish,
                     latestTimes |-> MapSet(prev.latestTimes, nodeId, latestStart)]
    IN B[Len(order)]

\* a tolerance of one day
zeroSlackLoose(earliest, latest) == Abs(latest - earliest) <= 1

\* Math.abs(latest - earliest) < 0.001 on integers
zeroSlack(earliest, latest) == Abs(latest - earliest) < 1

calculateCriticalPath(graph) ==
    Bind(topologicalSort(graph), LAMBDA sortedNodes :
    Bind(forwardPass(graph, sortedNodes), LAMBDA fw :
    Bind(MathMax(MapValues(fw.earliestFinish)), LAMBDA projectDuration :
    Bind(backwardPass(graph, sortedNodes, projectDuration), LAMBDA bw :
    Bind(SelectSeq(MapKeys(graph.nodes),
                   LAMBDA nodeId : zeroSlack(OrZero(fw.earliestTimes, nodeId),
                                             OrZero(bw.latestTimes, nodeId))),
         LAMBDA criticalPath :
            [criticalPath |-> criticalPath,
             earliestTimes |-> fw.earliestTimes,
             latestTimes |-> bw.latestTimes,
             criticalPathSet |-> Range(criticalPath),
             projectDuration |-> projectDuration])))))

\* getCriticalPathInfo().totalDuration: the i-th value of earliestTimes plus
\* the duration of the i-th key of graph.nodes
totalDuration(graph, cpm) ==
    LET starts == MapValues(cpm.earliestTimes)
        keys == MapKeys(graph.nodes)
    IN MathMax([idx \in 1..Len(starts) |->
                  starts[idx] + durationOf(graph, keys[idx])])

\* ------------------------------------------------------ updateTaskScheduling
\* a storage fault injected into one call: at = "none", or the storage
\* operation that throws; k = the index of the failing write of the batch
NoFault == [at |-> "none", k |-> 0]

RescheduleFaults(todos) ==
    {[at |-> "read", k |-> 0]}
        \cup {[at |-> "write", k |-> k] : k \in 1..Cardinality(DOMAIN todos)}

\* the date computed from the stored earliestStartDate, where there is one
scheduleWriteFromStored(todos, graph, cpm, projectStartDate, i) ==
    LET taskId == graph.nodes[i][1]
        earliestStart == OrZero(cpm.earliestTimes, taskId)
        stored == todos[taskId].earliestStartDate
        from == IF stored = <<>> THEN projectStartDate ELSE stored[1]
    IN [todos EXCEPT ![taskId] =
          [@ EXCEPT !.earliestStartDate = <<from + earliestStart>>,
                    !.isOnCriticalPath = taskId \in cpm.criticalPathSet]]

\* tx.todo.update of the i-th node of the batch
scheduleWrite(todos, graph, cpm, projectStartDate, i) ==
    LET taskId == graph.nodes[i][1]
        earliestStart == OrZero(cpm.earliestTimes, taskId)
    IN [todos EXCEPT ![taskId] =
          [@ EXCEPT !.earliestStartDate = <<projectStartDate + earliestStart>>,
                    !.isOnCriticalPath = taskId \in cpm.criticalPathSet]]

\* the rows as the transaction sees them after its first i writes
batchAfter(todos, graph, cpm, projectStartDate, i) ==
    LET F[j \in 0..i] ==
            IF j = 0 THEN todos
            ELSE scheduleWrite(F[j - 1], graph, cpm, projectStartDate, j)
    IN F[i]

\* the writes issued one by one outside a transaction
scheduleWithoutTransaction(todos, graph, cpm, projectStartDate, failAt) ==
    IF failAt \in 1..Len(graph.nodes)
    THEN batchAfter(todos, graph, cpm, projectStartDate, failAt - 1)
    ELSE batchAfter(todos, graph, cpm, projectStartDate, Len(graph.nodes))

\* the transaction without its last write
scheduleAllButLast(todos, graph, cpm, projectStartDate, failAt) ==
    IF failAt \in 1..Len(graph.nodes)
    THEN todos
    ELSE batchAfter(todos, graph, cpm, projectStartDate, Len(graph.nodes) - 1)

\* prisma.$transaction: the writes are committed together, or, when write
\* number failAt throws, rolled back together
scheduleTransaction(todos, graph, cpm, projectStartDate, failAt) ==
    IF failAt \in 1..Len(graph.nodes)
    THEN todos
    ELSE batchAfter(todos, graph, cpm, projectStartDate, Len(graph.nodes))

updateTaskScheduling(todos, deps, day, fault) ==
    IF fault.at = "read" THEN [ok |-> FALSE, todo |-> todos]
    ELSE Bind(buildDependencyGraph(todos, deps), LAMBDA graph :
         Bind(calculateCriticalPath(graph), LAMBDA cpm :
         Bind(IF fault.at = "write" THEN fault.k ELSE 0, LAMBDA failAt :
            [ok |-> failAt \notin 1..Len(graph.nodes),
             todo |-> scheduleTransaction(todos, graph, cpm, day, failAt)])))

\* ------------------------------------------ addDependency, removeDependency
Thrown(outcome, stage, todos, deps) ==
    [outcome |-> outcome, stage |-> stage, todo |-> todos, deps |-> deps]

AddFaults(todos) ==
    {[at |-> a, k |-> 0] : a \in {"findUnique", "buildGraph", "create"}}
        \cup RescheduleFaults(todos)

\* addDependency with the arguments of the cycle check exchanged
addDependencySwapped(todos, deps, day, taskId, dependsOnId, fault) ==
    IF taskId = dependsOnId
    THEN Thrown("self", "validate", todos, deps)
    ELSE IF fault.at = "findUnique"
    THEN Thrown("storage", "findUnique", todos, deps)
    ELSE IF <<taskId, dependsOnId>> \in deps
    THEN Thrown("duplicate", "validate", todos, deps)
    ELSE IF fault.at = "buildGraph"
    THEN Thrown("storage", "buildGraph", todos, deps)
    ELSE IF Bind(buildDependencyGraph(todos, deps),
                 LAMBDA graph : hasCircularDependency(graph, dependsOnId, taskId))
    THEN Thrown("circular", "validate", todos, deps)
    ELSE IF fault.at = "create"
    THEN Thrown("storage", "create", todos, deps)
    ELSE Bind(deps \cup {<<taskId, dependsOnId>>}, LAMBDA created :
         Bind(updateTaskScheduling(todos, created, day, fault), LAMBDA r :
            [outcome |-> IF r.ok THEN "success" ELSE "storage",
             stage |-> IF r.ok THEN "done" ELSE "reschedule",
             todo |-> r.todo, deps |-> created]))

\* addDependency without the comparison of taskId and dependsOnId
addDependencyNoSelfCheck(todos, deps, day, taskId, dependsOnId, fault) ==
    IF fault.at = "findUnique"
    THEN Thrown("storage", "findUnique", todos, deps)
    ELSE IF <<taskId, dependsOnId>> \in deps
    THEN Thrown("duplicate", "validate", todos, deps)
    ELSE IF fault.at = "buildGraph"
    THEN Thrown("storage", "buildGraph", todos, deps)
    ELSE IF Bind(buildDependencyGraph(todos, deps),
                 LAMBDA graph : hasCircularDependency(graph, taskId, dependsOnId))
    THEN Thrown("circular", "validate", todos, deps)
    ELSE IF fault.at = "create"
    THEN Thrown("storage", "create", todos, deps)
    ELSE Bind(deps \cup {<<taskId, dependsOnId>>}, LAMBDA created :
         Bind(updateTaskScheduling(todos, created, day, fault), LAMBDA r :
            [outcome |-> IF r.ok THEN "success" ELSE "storage",
             stage |-> IF r.ok THEN "done" ELSE "reschedule",
             todo |-> r.todo, deps |-> created]))

\* addDependency without the findUnique test, storing the pair as an upsert
addDependencyNoDuplicateCheck(todos, deps, day, taskId, dependsOnId, fault) ==
    IF taskId = dependsOnId
    THEN Thrown("self", "validate", todos, deps)
    ELSE IF fault.at = "buildGraph"
    THEN Thrown("storage", "buildGraph", todos, deps)
    ELSE IF Bind(buildDependencyGraph(todos, deps),
                 LAMBDA graph : hasCircularDependency(graph, taskId, dependsOnId))
    THEN Thrown("circular", "validate", todos, deps)
    ELSE IF fault.at = "create"
    THEN Thrown("storage", "create", todos, deps)
    ELSE Bind(deps \cup {<<taskId, dependsOnId>>}, LAMBDA created :
         Bind(updateTaskScheduling(todos, created, day, fault), LAMBDA r :
            [outcome |-> IF r.ok THEN "success" ELSE "storage",
             stage |-> IF r.ok THEN "done" ELSE "reschedule",
             todo |-> r.todo, deps |-> created]))

addDependency(todos, deps, day, taskId, dependsOnId, fault) ==
    IF taskId = dependsOnId
    THEN Thrown("self", "validate", todos, deps)
    ELSE IF fault.at = "findUnique"
    THEN Thrown("storage", "findUnique", todos, deps)
    ELSE IF <<taskId, dependsOnId>> \in deps
    THEN Thrown("duplicate", "validate", todos, deps)
    ELSE IF fault.at = "buildGraph"
    THEN Thrown("storage", "buildGraph", todos, deps)
    ELSE IF Bind(buildDependencyGraph(todos, deps),
                 LAMBDA graph : hasCircularDependency(graph, taskId, dependsOnId))
    THEN Thrown("circular", "validate", todos, deps)
    ELSE IF fault.at = "create"
    THEN Thrown("storage", "create", todos, deps)
    ELSE IF taskId \notin DOMAIN todos \/ dependsOnId \notin DOMAIN todos
    THEN Thrown("reference", "create", todos, deps)
    ELSE Bind(deps \cup {<<taskId, dependsOnId>>}, LAMBDA created :
         Bind(updateTaskScheduling(todos, created, day, fault), LAMBDA r :
            [outcome |-> IF r.ok THEN "success" ELSE "storage",
             stage |-> IF r.ok THEN "done" ELSE "reschedule",
             todo |-> r.todo, deps |-> created]))

RemoveFaults(todos) ==
    {[at |-> "deleteMany", k |-> 0]} \cup RescheduleFaults(todos)

\* removeDependency that deletes the row and returns without rescheduling
removeDependencyWithoutReschedule(todos, deps, day, taskId, dependsOnId, fault) ==
    IF fault.at = "deleteMany"
    THEN Thrown("storage", "deleteMany", todos, deps)
    ELSE [outcome |-> "success", stage |-> "done",
          todo |-> todos, deps |-> deps \ {<<taskId, dependsOnId>>}]

\* removeDependency with taskDependency.delete, which throws when no row matches
removeDependencyDelete(todos, deps, day, taskId, dependsOnId, fault) ==
    IF fault.at = "deleteMany" \/ <<taskId, dependsOnId>> \notin deps
    THEN Thrown("storage", "deleteMany", todos, deps)
    ELSE Bind(deps \ {<<taskId, dependsOnId>>}, LAMBDA deleted :
         Bind(updateTaskScheduling(todos, deleted, day, fault), LAMBDA r :
            [outcome |-> IF r.ok THEN "success" ELSE "storage",
             stage |-> IF r.ok THEN "done" ELSE "reschedule",
             todo |-> r.todo, deps |-> deleted]))

removeDependency(todos, deps, day, taskId, dependsOnId, fault) ==
    IF fault.at = "deleteMany"
    THEN Thrown("storage", "deleteMany", todos, deps)
    ELSE Bind(deps \ {<<taskId, dependsOnId>>}, LAMBDA deleted :
         Bind(updateTaskScheduling(todos, deleted, day, fault), LAMBDA r :
            [outcome |-> IF r.ok THEN "success" ELSE "storage",
             stage |-> IF r.ok THEN "done" ELSE "reschedule",
             todo |-> r.todo, deps |-> deleted]))

\* ------------------------------------------------------------------ states
\* every pair of distinct tasks: the candidate edges of a what-if batch
CandidateEdges(ids) == {e \in ids \X ids : e[1] # e[2]}

NoCall == [op |-> "none", taskId |-> 0, dependsOnId |-> 0]

Returned(op, outcome, stage) == [op |-> op, outcome |-> outcome, stage |-> stage]

NewRows(ids) ==
    [ids -> [duration : Durations, earliestStartDate : {<<>>}, isOnCriticalPath : {FALSE},
             isDraft : {FALSE}]]

Quiet ==
    /\ draftDependency = {}
    /\ today = 0
    /\ last = Returned("none", "none", "none")
    /\ failures = 0
    /\ info = <<>>
    /\ pc = [p \in Procs |-> "idle"]
    /\ call = [p \in Procs |-> NoCall]
    /\ local = [p \in Procs |-> <<>>]
    /\ calls = 0

\* Scenario A's three tasks, no dependency yet, never scheduled
Init ==
    /\ todo = [t \in DOMAIN ScenarioDuration |->
                 [duration |-> ScenarioDuration[t],
                  earliestStartDate |-> <<>>,
                  isOnCriticalPath |-> FALSE,
                  isDraft |-> FALSE]]
    /\ taskDependency = {}
    /\ sequence = Len(ScenarioDuration)
    /\ Quiet

\* ------------------------------------ the handlers, one request at a time
AddDependency(taskId, dependsOnId, fault) ==
    /\ failures + (IF fault = NoFault THEN 0 ELSE 1) <= MaxFailures
    /\ \E r \in {addDependency(todo, taskDependency, today, taskId, dependsOnId, fault)} :
          /\ todo' = r.todo
          /\ taskDependency' = r.deps
          /\ draftDependency' = draftDependency \cap r.deps
          /\ UNCHANGED sequence
          /\ last' = Returned("addDependency", r.outcome, r.stage)
          /\ failures' = failures + (IF r.outcome = "storage" THEN 1 ELSE 0)
    /\ UNCHANGED <<today, info, pc, call, local, calls>>

RemoveDependency(taskId, dependsOnId, fault) ==
    /\ failures + (IF fault = NoFault THEN 0 ELSE 1) <= MaxFailures
    /\ \E r \in {removeDependency(todo, taskDependency, today, taskId, dependsOnId, fault)} :
          /\ todo' = r.todo
          /\ taskDependency' = r.deps
          /\ draftDependency' = draftDependency \cap r.deps
          /\ UNCHANGED sequence
          /\ last' = Returned("removeDependency", r.outcome, r.stage)
          /\ failures' = failures + (IF r.outcome = "storage" THEN 1 ELSE 0)
    /\ UNCHANGED <<today, info, pc, call, local, calls>>

\* POST /api/todos/update-scheduling
UpdateScheduling(fault) ==
    /\ failures + (IF fault = NoFault THEN 0 ELSE 1) <= MaxFailures
    /\ \E r \in {updateTaskScheduling(todo, taskDependency, today, fault)} :
          /\ todo' = r.todo
          /\ UNCHANGED sequence
          /\ last' = Returned("updateTaskScheduling",
                              IF r.ok THEN "success" ELSE "storage",
                              IF r.ok THEN "done" ELSE "reschedule")
          /\ failures' = failures + (IF r.ok THEN 0 ELSE 1)
    /\ UNCHANGED <<taskDependency, draftDependency, today, info, pc, call, local, calls>>

Next ==
    \/ \E t \in DOMAIN todo, d \in DOMAIN todo : AddDependency(t, d, NoFault)
    \/ \E t \in DOMAIN todo, d \in DOMAIN todo : RemoveDependency(t, d, NoFault)
    \/ UpdateScheduling(NoFault)

Spec == Init /\ [][Next]_vars

\* midnight passes: new Date() falls on the next calendar day
Tick ==
    /\ today < MaxDay
    /\ today' = today + 1
    /\ UNCHANGED <<todo, sequence, taskDependency, draftDependency, last, failures, info, pc, call,
                   local, calls>>

NextClock == Next \/ Tick

SpecClock == Init /\ [][NextClock]_vars

\* the same handlers with a storage operation that throws
AddDependencyFails(taskId, dependsOnId) ==
    \E fault \in AddFaults(todo) : AddDependency(taskId, dependsOnId, fault)

RemoveDependencyFails(taskId, dependsOnId) ==
    \E fault \in RemoveFaults(todo) : RemoveDependency(taskId, dependsOnId, fault)

UpdateSchedulingFails ==
    \E fault \in RescheduleFaults(todo) : UpdateScheduling(fault)

NextFault ==
    \/ Next
    \/ \E t \in DOMAIN todo, d \in DOMAIN todo : AddDependencyFails(t, d)
    \/ \E t \in DOMAIN todo, d \in DOMAIN todo : RemoveDependencyFails(t, d)
    \/ UpdateSchedulingFails

SpecFault == Init /\ [][NextFault]_vars

\* --------------------------------------------- the task routes /api/todos
\* CONFIG.DEFAULT_TASK_DURATION
DEFAULT_TASK_DURATION == 1

\* the duration field of a request body: absent, a number, or a value that
\* parseInt turns into NaN
Absent == [kind |-> "absent", n |-> 0]

Num(n) == [kind |-> "number", n |-> n]

NotANumber == [kind |-> "other", n |-> 0]

DurationInputs == {Absent, NotANumber} \cup {Num(n) : n \in (0 - 1)..MaxDur}

\* parseInt(value): <<n>> for the integer n, <<>> for NaN
parseInt(value) == IF value.kind = "number" THEN <<value.n>> ELSE <<>>

\* parsed || dflt: NaN and 0 are falsy
OrElse(parsed, dflt) ==
    IF parsed = <<>> THEN dflt
    ELSE IF parsed[1] = 0 THEN dflt
    ELSE parsed[1]

\* a destructuring default: const { duration = dflt } = body
WithDefault(value, dflt) == IF value.kind = "absent" THEN Num(dflt) ELSE value

\* the row prisma.todo.create stores, the other columns at their defaults
NewTodo(duration, isDraft) ==
    [duration |-> duration, earliestStartDate |-> <<>>, isOnCriticalPath |-> FALSE,
     isDraft |-> isDraft]

Insert(todos, id, row) ==
    [t \in DOMAIN todos \cup {id} |-> IF t = id THEN row ELSE todos[t]]

\* POST /api/todos
CreateTodo(titleGiven, duration) ==
    /\ sequence < MaxTodos
    /\ IF ~titleGiven
       THEN /\ last' = Returned("createTodo", "invalid", "validate")
            /\ UNCHANGED <<todo, sequence>>
       ELSE \E created \in {Insert(todo, sequence + 1,
                                   NewTodo(OrElse(parseInt(WithDefault(duration, 1)),
                                                  DEFAULT_TASK_DURATION), FALSE))} :
            \E r \in {updateTaskScheduling(created, taskDependency, today, NoFault)} :
               /\ todo' = r.todo
               /\ sequence' = sequence + 1
               /\ last' = Returned("createTodo", "success", "done")
    /\ UNCHANGED <<taskDependency, draftDependency, today, failures, info, pc, call, local,
                   calls>>

\* PATCH /api/todos/[id] with a body that may carry a duration
PatchTodo(id, duration) ==
    /\ IF id \notin DOMAIN todo
       THEN /\ last' = Returned("patchTodo", "storage", "update")
            /\ UNCHANGED todo
       ELSE \E updated \in {IF duration.kind = "absent" THEN todo
                             ELSE [todo EXCEPT ![id].duration =
                                     OrElse(parseInt(duration), 1)]} :
            \E r \in {updateTaskScheduling(updated, taskDependency, today, NoFault)} :
               /\ todo' = r.todo
               /\ last' = Returned("patchTodo", "success", "done")
    /\ UNCHANGED <<taskDependency, draftDependency, sequence, today, failures, info, pc,
                   call, local, calls>>

\* ------------------------------------------ POST /api/ai/bulk-preview
\* An operation as getPreviewOperations returns it. taskId, fromId and toId
\* are the ids the handler works with once titles are resolved; duplicate
\* says that findFirst finds a stored task of the same title and due date.
DeleteTask(taskId) ==
    [type |-> "DELETE_TASK", taskId |-> taskId, fromId |-> 0, toId |-> 0,
     duration |-> Absent, duplicate |-> FALSE]

DeleteDependency(fromId, toId) ==
    [type |-> "DELETE_DEPENDENCY", taskId |-> 0, fromId |-> fromId, toId |-> toId,
     duration |-> Absent, duplicate |-> FALSE]

AddTask(duration, duplicate) ==
    [type |-> "ADD_TASK", taskId |-> 0, fromId |-> 0, toId |-> 0,
     duration |-> duration, duplicate |-> duplicate]

AddDependencyOp(fromId, toId) ==
    [type |-> "ADD_DEPENDENCY", taskId |-> 0, fromId |-> fromId, toId |-> toId,
     duration |-> Absent, duplicate |-> FALSE]

Operations ==
    {DeleteTask(t) : t \in 1..MaxTodos}
        \cup {DeleteDependency(e[1], e[2]) : e \in CandidateEdges(1..MaxTodos)}
        \cup {AddTask(d, FALSE) : d \in DurationInputs}
        \cup {AddTask(Absent, TRUE)}
        \cup {AddDependencyOp(f, t) : f \in 1..MaxTodos, t \in 1..MaxTodos}

Batches == UNION {[1..n -> Operations] : n \in 0..MaxBatch}

\* operations.filter(...): DELETE operations, then ADD_TASK, then ADD_DEPENDENCY
processingOrder(operations) ==
    SelectSeq(operations, LAMBDA o : o.type \in {"DELETE_TASK", "DELETE_DEPENDENCY"})
        \o SelectSeq(operations, LAMBDA o : o.type = "ADD_TASK")
        \o SelectSeq(operations, LAMBDA o : o.type = "ADD_DEPENDENCY")

markFailed(tx, op) ==
    [tx EXCEPT !.operations = Append(@, [op |-> op, status |-> "failed"])]

markSuccess(tx, op) ==
    [tx EXCEPT !.operations = Append(@, [op |-> op, status |-> "success"])]

\* one operation inside the transaction. tx holds the rows as the
\* transaction sees them; graph is what buildDependencyGraph reads through
\* the global client, outside the transaction: the committed rows.
applyOperation(tx, op, graph) ==
    IF op.type = "DELETE_TASK"
    THEN IF op.taskId \notin DOMAIN tx.todo THEN markFailed(tx, op)
         ELSE markSuccess([tx EXCEPT !.todo[op.taskId].isDraft = TRUE], op)
    ELSE IF op.type = "DELETE_DEPENDENCY"
    THEN IF <<op.fromId, op.toId>> \notin tx.deps THEN markFailed(tx, op)
         ELSE markSuccess([tx EXCEPT !.drafts = @ \cup {<<op.fromId, op.toId>>}], op)
    ELSE IF op.type = "ADD_TASK"
    THEN IF op.duplicate \/ op.duration.kind = "other" THEN markFailed(tx, op)
         ELSE markSuccess(
                [tx EXCEPT !.todo = Insert(@, tx.sequence + 1,
                                           NewTodo(WithDefault(op.duration, 1).n, TRUE)),
                           !.sequence = @ + 1],
                [op EXCEPT !.taskId = tx.sequence + 1])
    ELSE IF hasCircularDependency(graph, op.fromId, op.toId) THEN markFailed(tx, op)
    ELSE IF op.fromId \notin DOMAIN tx.todo \/ op.toId \notin DOMAIN tx.todo
    THEN markFailed(tx, op)
    ELSE IF <<op.fromId, op.toId>> \in tx.deps THEN markFailed(tx, op)
    ELSE markSuccess([tx EXCEPT !.deps = @ \cup {<<op.fromId, op.toId>>},
                                !.drafts = @ \cup {<<op.fromId, op.toId>>}], op)

RECURSIVE applyOperations(_, _, _, _)
applyOperations(tx, operations, i, graph) ==
    IF i > Len(operations) THEN tx
    ELSE applyOperations(applyOperation(tx, operations[i], graph), operations, i + 1, graph)

\* the transaction of the handler, up to its commit
bulkPreview(todos, deps, drafts, seq, operations) ==
    Bind(buildDependencyGraph(todos, deps), LAMBDA graph :
        applyOperations([todo |-> todos, deps |-> deps, drafts |-> drafts,
                         sequence |-> seq, operations |-> <<>>],
                        processingOrder(operations), 1, graph))

\* what the read through the global client does while the transaction holds
\* its connection: it returns the committed rows, or it gets no connection
\* and the transaction times out
\* the rows of the two tables; the preview keeps those it started from in
\* before, for the comparison with what a review leaves
Rows(todos, deps, drafts) == [todo |-> todos, deps |-> deps, drafts |-> drafts]

ReadOutcomes == {"committed", "unavailable"}

AddedTasks(operations) == Len(SelectSeq(operations, LAMBDA o : o.type = "ADD_TASK"))

BulkPreview(operations, read) ==
    /\ info = <<>>
    /\ sequence + AddedTasks(operations) <= MaxTodos
    /\ IF read = "unavailable" /\ \E i \in 1..Len(operations) :
                                      operations[i].type = "ADD_DEPENDENCY"
       THEN /\ last' = Returned("bulkPreview", "storage", "buildGraph")
            /\ info' = <<[kind |-> "preview", operations |-> <<>>]>>
            /\ UNCHANGED <<todo, taskDependency, draftDependency, sequence>>
       ELSE \E tx \in {bulkPreview(todo, taskDependency, draftDependency, sequence,
                                   operations)} :
               /\ todo' = tx.todo
               /\ taskDependency' = tx.deps
               /\ draftDependency' = tx.drafts
               /\ sequence' = tx.sequence
               /\ last' = Returned("bulkPreview", "success", "done")
               /\ info' = <<[kind |-> "preview", operations |-> tx.operations]>>
    /\ UNCHANGED <<today, failures, pc, call, local, calls>>

NextBulk ==
    \/ \E operations \in Batches, read \in ReadOutcomes : BulkPreview(operations, read)
    \/ UpdateScheduling(NoFault)

SpecBulk == Init /\ [][NextBulk]_vars

\* the task routes, and a preview that adds one task
NextTodo ==
    \/ \E titleGiven \in BOOLEAN, duration \in DurationInputs :
          CreateTodo(titleGiven, duration)
    \/ \E id \in 1..MaxTodos, duration \in DurationInputs : PatchTodo(id, duration)
    \/ \E duration \in DurationInputs : BulkPreview(<<AddTask(duration, FALSE)>>, "committed")

SpecTodo == Init /\ [][NextTodo]_vars

\* ------------------- PATCH and DELETE /api/ai/operations/[operationId]
\* the row goes and the edges that mention it stay
deleteTodoWithoutCascade(rows, id) ==
    [todo |-> [t \in DOMAIN rows.todo \ {id} |-> rows.todo[t]],
     deps |-> rows.deps,
     drafts |-> rows.drafts]

\* prisma.todo.delete: the row goes, and with it, by ON DELETE CASCADE of both
\* foreign keys of TaskDependency, every edge that mentions it
deleteTodo(rows, id) ==
    [todo |-> [t \in DOMAIN rows.todo \ {id} |-> rows.todo[t]],
     deps |-> {e \in rows.deps : e[1] # id /\ e[2] # id},
     drafts |-> {e \in rows.drafts : e[1] # id /\ e[2] # id}]

RolledBack(rows) == [ok |-> FALSE, todo |-> rows.todo, deps |-> rows.deps, drafts |-> rows.drafts]

Done(rows) == [ok |-> TRUE, todo |-> rows.todo, deps |-> rows.deps, drafts |-> rows.drafts]

\* the transaction of handleOperation: update and delete throw when no row
\* matches their where, and the transaction rolls back
handleOperation(rows, op, action) ==
    LET edge == <<op.fromId, op.toId>>
    IN IF op.type = "ADD_TASK"
       THEN IF op.taskId = 0 \/ op.taskId \notin DOMAIN rows.todo THEN RolledBack(rows)
            ELSE IF action = "accept"
            THEN Done([rows EXCEPT !.todo[op.taskId].isDraft = FALSE])
            ELSE Done(deleteTodo(rows, op.taskId))
       ELSE IF op.type = "DELETE_TASK"
       THEN IF op.taskId = 0 \/ op.taskId \notin DOMAIN rows.todo THEN RolledBack(rows)
            ELSE IF action = "accept"
            THEN IF rows.todo[op.taskId].isDraft
                 THEN Done(deleteTodo(rows, op.taskId))
                 ELSE RolledBack(rows)
            ELSE Done([rows EXCEPT !.todo[op.taskId].isDraft = FALSE])
       ELSE IF edge \notin rows.deps THEN RolledBack(rows)
       ELSE IF (op.type = "ADD_DEPENDENCY") = (action = "accept")
       THEN Done([rows EXCEPT !.drafts = @ \ {edge}])
       ELSE Done([rows EXCEPT !.deps = @ \ {edge}, !.drafts = @ \ {edge}])

Previewed == info # <<>> /\ info[1].kind = "preview"

\* what the panel shows for an operation once the server has answered
Reviewed(status, action) ==
    IF status = "failed" THEN "dismissed"
    ELSE IF action = "accept" THEN "accepted" ELSE "rejected"

\* The client sends back operation i of the preview response; the panel
\* offers accept for the operations that succeeded and reject for all.
\* matching: the operationId of the URL is the id of the operation sent.
HandleOperation(i, action, matching) ==
    /\ Previewed
    /\ i \in 1..Len(info[1].operations)
    /\ info[1].operations[i].status \in
          (IF action = "accept" THEN {"success"} ELSE {"success", "failed"})
    /\ IF ~matching
       THEN /\ last' = Returned(action, "invalid", "validate")
            /\ UNCHANGED <<todo, taskDependency, draftDependency, info>>
       ELSE \E r \in {handleOperation([todo |-> todo, deps |-> taskDependency,
                                       drafts |-> draftDependency],
                                      info[1].operations[i].op, action)} :
               /\ todo' = r.todo
               /\ taskDependency' = r.deps
               /\ draftDependency' = r.drafts
               /\ last' = Returned(action, IF r.ok THEN "success" ELSE "storage",
                                   IF r.ok THEN "done" ELSE "transaction")
               /\ info' = IF r.ok
                          THEN [info EXCEPT ![1].operations[i].status =
                                              Reviewed(@, action)]
                          ELSE info
    /\ UNCHANGED <<sequence, today, failures, pc, call, local, calls>>

ScenarioEdges == {<<2, 1>>, <<3, 1>>}

\* the prompts answered before, whose panel was closed without a review
EarlierBatches ==
    {<<>>, <<AddTask(Absent, FALSE)>>, <<AddDependencyOp(3, 2)>>, <<DeleteTask(3)>>}

\* Scenario A as committed, B and C depending on A, and what an earlier
\* preview left as drafts
InitReview ==
    /\ \E earlier \in EarlierBatches :
       \E tx \in {bulkPreview([t \in DOMAIN ScenarioDuration |->
                                 NewTodo(ScenarioDuration[t], FALSE)],
                              ScenarioEdges, {}, Len(ScenarioDuration), earlier)} :
          /\ todo = tx.todo
          /\ taskDependency = tx.deps
          /\ sequence = tx.sequence
          /\ draftDependency = tx.drafts
    /\ today = 0
    /\ last = Returned("none", "none", "none")
    /\ failures = 0
    /\ info = <<>>
    /\ pc = [p \in Procs |-> "idle"]
    /\ call = [p \in Procs |-> NoCall]
    /\ local = [p \in Procs |-> <<>>]
    /\ calls = 0

\* one prompt, and the review of its operations
NextReview ==
    \/ \E operations \in Batches, read \in ReadOutcomes : BulkPreview(operations, read)
    \/ \E i \in 1..MaxBatch, action \in {"accept", "reject"}, matching \in BOOLEAN :
          HandleOperation(i, action, matching)

SpecReview == InitReview /\ [][NextReview]_vars

\* DELETE /api/todos/[id]
DeleteTodo(id) ==
    /\ IF id \notin DOMAIN todo
       THEN /\ last' = Returned("deleteTodo", "storage", "delete")
            /\ UNCHANGED <<todo, taskDependency, draftDependency>>
       ELSE \E deleted \in {deleteTodo(Rows(todo, taskDependency, draftDependency), id)} :
            \E r \in {updateTaskScheduling(deleted.todo, deleted.deps, today, NoFault)} :
               /\ todo' = r.todo
               /\ taskDependency' = deleted.deps
               /\ draftDependency' = deleted.drafts
               /\ last' = Returned("deleteTodo", "success", "done")
    /\ UNCHANGED <<sequence, today, failures, info, pc, call, local, calls>>

\* Scenario A as committed, the next task id being the last one a run gives
InitStore ==
    /\ todo = [t \in DOMAIN ScenarioDuration |-> NewTodo(ScenarioDuration[t], FALSE)]
    /\ taskDependency = ScenarioEdges
    /\ sequence = MaxTodos - 1
    /\ Quiet

\* every route that changes the stored tasks and edges, one request at a
\* time, up to a prompt and the review of its operation; ids range over
\* stored and unknown tasks
NextStore ==
    \/ info = <<>> /\ \E titleGiven \in BOOLEAN : CreateTodo(titleGiven, Absent)
    \/ info = <<>> /\ \E id \in 1..MaxTodos : DeleteTodo(id)
    \/ info = <<>> /\ \E t \in 1..MaxTodos, d \in 1..MaxTodos : AddDependency(t, d, NoFault)
    \/ info = <<>> /\ \E t \in 1..MaxTodos, d \in 1..MaxTodos :
                         RemoveDependency(t, d, NoFault)
    \/ \E op \in Operations : BulkPreview(<<op>>, "committed")
    \/ \E action \in {"accept", "reject"} : HandleOperation(1, action, TRUE)

SpecStore == InitStore /\ [][NextStore]_vars

\* ------------------------------------------- two handlers in flight at once
\* Each await of a handler is one step; the synchronous code before the
\* first await belongs to the step that starts the call.
Started(p, op, taskId, dependsOnId, at) ==
    /\ pc[p] = "idle"
    /\ calls < MaxCalls
    /\ calls' = calls + 1
    /\ call' = [call EXCEPT ![p] = [op |-> op, taskId |-> taskId, dependsOnId |-> dependsOnId]]
    /\ pc' = [pc EXCEPT ![p] = at]

Throws(p, outcome, stage) ==
    /\ pc' = [pc EXCEPT ![p] = "idle"]
    /\ last' = Returned(call[p].op, outcome, stage)

\* addDependency(taskId, taskId) throws before any storage access
CallAddSelf(p, taskId) ==
    /\ pc[p] = "idle"
    /\ calls < MaxCalls
    /\ calls' = calls + 1
    /\ last' = Returned("addDependency", "self", "validate")
    /\ UNCHANGED <<todo, sequence, taskDependency, draftDependency, today, failures, info, pc, call, local>>

CallAdd(p, taskId, dependsOnId) ==
    /\ taskId # dependsOnId
    /\ Started(p, "addDependency", taskId, dependsOnId, "findUnique")
    /\ UNCHANGED <<todo, sequence, taskDependency, draftDependency, today, last, failures, info, local>>

CallRemove(p, taskId, dependsOnId) ==
    /\ Started(p, "removeDependency", taskId, dependsOnId, "deleteMany")
    /\ UNCHANGED <<todo, sequence, taskDependency, draftDependency, today, last, failures, info, local>>

CallUpdate(p) ==
    /\ Started(p, "updateTaskScheduling", 0, 0, "reschedule")
    /\ UNCHANGED <<todo, sequence, taskDependency, draftDependency, today, last, failures, info, local>>

FindUniqueFound(p) ==
    /\ pc[p] = "findUnique"
    /\ <<call[p].taskId, call[p].dependsOnId>> \in taskDependency
    /\ Throws(p, "duplicate", "validate")
    /\ UNCHANGED <<todo, sequence, taskDependency, draftDependency, today, failures, info, call, local, calls>>

FindUniqueNone(p) ==
    /\ pc[p] = "findUnique"
    /\ <<call[p].taskId, call[p].dependsOnId>> \notin taskDependency
    /\ pc' = [pc EXCEPT ![p] = "buildGraph"]
    /\ UNCHANGED <<todo, sequence, taskDependency, draftDependency, today, last, failures, info, call, local, calls>>

\* buildDependencyGraph and the cycle check on the graph just read
CheckCycleFound(p) ==
    /\ pc[p] = "buildGraph"
    /\ \E graph \in {buildDependencyGraph(todo, taskDependency)} :
          hasCircularDependency(graph, call[p].taskId, call[p].dependsOnId)
    /\ Throws(p, "circular", "validate")
    /\ UNCHANGED <<todo, sequence, taskDependency, draftDependency, today, failures, info, call, local, calls>>

CheckCycleNone(p) ==
    /\ pc[p] = "buildGraph"
    /\ \E graph \in {buildDependencyGraph(todo, taskDependency)} :
          ~hasCircularDependency(graph, call[p].taskId, call[p].dependsOnId)
    /\ pc' = [pc EXCEPT ![p] = "create"]
    /\ UNCHANGED <<todo, sequence, taskDependency, draftDependency, today, last, failures, info, call, local, calls>>

\* prisma.taskDependency.create
Create(p) ==
    /\ pc[p] = "create"
    /\ <<call[p].taskId, call[p].dependsOnId>> \notin taskDependency
    /\ taskDependency' = taskDependency \cup {<<call[p].taskId, call[p].dependsOnId>>}
    /\ UNCHANGED draftDependency
    /\ pc' = [pc EXCEPT ![p] = "reschedule"]
    /\ UNCHANGED <<todo, sequence, today, last, failures, info, call, local, calls>>

\* the unique index on (taskId, dependsOnId) makes create throw
CreateConflict(p) ==
    /\ pc[p] = "create"
    /\ <<call[p].taskId, call[p].dependsOnId>> \in taskDependency
    /\ Throws(p, "storage", "create")
    /\ UNCHANGED <<todo, sequence, taskDependency, draftDependency, today, failures, info, call, local, calls>>

\* prisma.taskDependency.deleteMany
DeleteMany(p) ==
    /\ pc[p] = "deleteMany"
    /\ taskDependency' = taskDependency \ {<<call[p].taskId, call[p].dependsOnId>>}
    /\ draftDependency' = draftDependency \ {<<call[p].taskId, call[p].dependsOnId>>}
    /\ pc' = [pc EXCEPT ![p] = "reschedule"]
    /\ UNCHANGED <<todo, sequence, today, last, failures, info, call, local, calls>>

\* updateTaskScheduling up to its transaction: read the graph, compute
ReadAndCompute(p) ==
    /\ pc[p] = "reschedule"
    /\ \E graph \in {buildDependencyGraph(todo, taskDependency)} :
          local' = [local EXCEPT ![p] =
                      <<[graph |-> graph,
                         cpm |-> calculateCriticalPath(graph),
                         projectStartDate |-> today]>>]
    /\ pc' = [pc EXCEPT ![p] = "transaction"]
    /\ UNCHANGED <<todo, sequence, taskDependency, draftDependency, today, last, failures, info, call, calls>>

\* the transaction of updateTaskScheduling commits, and the call returns
Commit(p) ==
    /\ pc[p] = "transaction"
    /\ todo' = scheduleTransaction(todo, local[p][1].graph, local[p][1].cpm,
                                   local[p][1].projectStartDate, 0)
    /\ local' = [local EXCEPT ![p] = <<>>]
    /\ pc' = [pc EXCEPT ![p] = "idle"]
    /\ last' = Returned(call[p].op, "success", "done")
    /\ UNCHANGED sequence
    /\ UNCHANGED <<taskDependency, draftDependency, today, failures, info, call, calls>>

NextConc ==
    \/ \E p \in Procs, t \in DOMAIN todo : CallAddSelf(p, t)
    \/ \E p \in Procs, t \in DOMAIN todo, d \in DOMAIN todo : CallAdd(p, t, d)
    \/ \E p \in Procs, t \in DOMAIN todo, d \in DOMAIN todo : CallRemove(p, t, d)
    \/ \E p \in Procs : CallUpdate(p)
    \/ \E p \in Procs : FindUniqueFound(p)
    \/ \E p \in Procs : FindUniqueNone(p)
    \/ \E p \in Procs : CheckCycleFound(p)
    \/ \E p \in Procs : CheckCycleNone(p)
    \/ \E p \in Procs : Create(p)
    \/ \E p \in Procs : CreateConflict(p)
    \/ \E p \in Procs : DeleteMany(p)
    \/ \E p \in Procs : ReadAndCompute(p)
    \/ \E p \in Procs : Commit(p)

SpecConc == Init /\ [][NextConc]_vars

\* ------------------------------------------- read-only use of the algorithms
\* hasCircularDependency for every candidate edge, on one graph
WhatIf ==
    /\ info = <<>>
    /\ \E graph \in {buildDependencyGraph(todo, taskDependency)} :
          info' = <<[kind |-> "whatIf",
                     cycle |-> [e \in CandidateEdges(DOMAIN todo) |->
                                  hasCircularDependency(graph, e[1], e[2])]]>>
    /\ UNCHANGED <<todo, sequence, taskDependency, draftDependency, today, last, failures, pc, call, local, calls>>

\* topologicalSort, calculateCriticalPath and getCriticalPathInfo on one graph
Analyse ==
    /\ info = <<>>
    /\ \E graph \in {buildDependencyGraph(todo, taskDependency)} :
       \E cpm \in {calculateCriticalPath(graph)} :
          info' = <<[kind |-> "analysis",
                     sorted |-> topologicalSort(graph),
                     cpm |-> cpm,
                     totalDuration |-> totalDuration(graph, cpm)]>>
    /\ UNCHANGED <<todo, sequence, taskDependency, draftDependency, today, last, failures, pc, call, local, calls>>

\* candidate edges in the order of their ids
RECURSIVE EdgeSeq(_)
EdgeSeq(S) ==
    IF S = {} THEN <<>>
    ELSE LET m == CHOOSE x \in S :
                    \A y \in S : x[1] < y[1] \/ (x[1] = y[1] /\ x[2] <= y[2])
         IN <<m>> \o EdgeSeq(S \ {m})

\* the calls for candidates[i], candidates[i + 1], ... on the objects heap;
\* cycle collects the booleans returned so far
RECURSIVE whatIfCalls(_, _, _, _, _)
whatIfCalls(heap, nodes, candidates, i, cycle) ==
    IF i > Len(candidates) THEN [heap |-> heap, cycle |-> cycle]
    ELSE Bind(hasCircularDependencyOn(heap, nodes, candidates[i][1], candidates[i][2]),
              LAMBDA r : whatIfCalls(r.heap, nodes, candidates, i + 1,
                                     Append(cycle, r.found)))

\* hasCircularDependency called for one candidate edge after the other on
\* the same graph object
WhatIfSequence ==
    /\ info = <<>>
    /\ \E graph \in {buildDependencyGraph(todo, taskDependency)} :
       \E candidates \in {EdgeSeq(CandidateEdges(DOMAIN todo))} :
          \E done \in {whatIfCalls(heapOf(graph), graph.nodes, candidates, 1, <<>>)} :
                info' = <<[kind |-> "sequence",
                           candidates |-> candidates,
                           cycle |-> done.cycle,
                           adjacencyList |-> Deref(done.heap.map, done.heap.arrays)]>>
    /\ UNCHANGED <<todo, sequence, taskDependency, draftDependency, today, last, failures, pc,
                   call, local, calls>>

\* ------------------------- the older topologicalSort and forward pass
\* in-degrees counted as the current topologicalSort counts them
olderInDegreeOfPrerequisites(graph) ==
    initialInDegree(graph)

\* in-degree of a task = number of tasks that depend on it
olderInDegree(graph) ==
    LET keys == MapKeys(graph.nodes)
        zero == [i \in 1..Len(keys) |-> <<keys[i], 0>>]
        adj == graph.adjacencyList
        inner(inDegree, dependencies) ==
            LET D[j \in 0..Len(dependencies)] ==
                    IF j = 0 THEN inDegree
                    ELSE LET prev == D[j - 1]
                         IN MapSet(prev, dependencies[j], OrZero(prev, dependencies[j]) + 1)
            IN D[Len(dependencies)]
        F[i \in 0..Len(adj)] ==
            IF i = 0 THEN zero ELSE inner(F[i - 1], adj[i][2])
    IN F[Len(adj)]

\* the inner for-loop of one dequeue: decrement every task currentId
\* depends on
olderRelease(graph, currentId, inDegree, queue) ==
    LET dependencies == MapGetOr(graph.adjacencyList, currentId, <<>>)
        F[i \in 0..Len(dependencies)] ==
            IF i = 0 THEN [inDegree |-> inDegree, queue |-> queue]
            ELSE LET prev == F[i - 1]
                     depId == dependencies[i]
                     newInDegree == OrZero(prev.inDegree, depId) - 1
                 IN [inDegree |-> MapSet(prev.inDegree, depId, newInDegree),
                     queue |-> IF newInDegree = 0 THEN Append(prev.queue, depId)
                               ELSE prev.queue]
    IN F[Len(dependencies)]

RECURSIVE olderProcessQueue(_, _, _, _)
olderProcessQueue(graph, inDegree, queue, result) ==
    IF Len(queue) = 0 THEN result
    ELSE Bind(olderRelease(graph, Head(queue), inDegree, Tail(queue)), LAMBDA r :
            olderProcessQueue(graph, r.inDegree, r.queue, Append(result, Head(queue))))

olderTopologicalSort(graph, inDegree) ==
    olderProcessQueue(graph, inDegree, MapKeys(SelectSeq(inDegree, LAMBDA e : e[2] = 0)),
                      <<>>)

\* the forward pass of the older calculateCriticalPath
olderForwardPass(graph, sortedNodes) ==
    LET F[i \in 0..Len(sortedNodes)] ==
            IF i = 0 THEN <<>>
            ELSE LET prev == F[i - 1]
                     nodeId == sortedNodes[i]
                     dependencies == MapGetOr(graph.adjacencyList, nodeId, <<>>)
                     D[j \in 0..Len(dependencies)] ==
                         IF j = 0 THEN 0
                         ELSE Max2(D[j - 1], OrZero(prev, dependencies[j])
                                               + durationOf(graph, dependencies[j]))
                 IN MapSet(prev, nodeId, D[Len(dependencies)])
    IN F[Len(sortedNodes)]

\* the older topologicalSort and the forward pass that consumes its order
AnalyseOlder ==
    /\ info = <<>>
    /\ \E graph \in {buildDependencyGraph(todo, taskDependency)} :
       \E sorted \in {olderTopologicalSort(graph, olderInDegree(graph))} :
          info' = <<[kind |-> "older",
                     sorted |-> sorted,
                     earliestTimes |-> olderForwardPass(graph, sorted)]>>
    /\ UNCHANGED <<todo, sequence, taskDependency, draftDependency, today, last, failures, pc,
                   call, local, calls>>

\* ---------------------------------------------- reference graph notions
\* the tasks x depends on, directly or transitively
RECURSIVE Closure(_, _)
Closure(deps, S) ==
    LET T == S \cup {e[2] : e \in {x \in deps : x[1] \in S}}
    IN IF T = S THEN S ELSE Closure(deps, T)

DependsOnAll(deps, x) == Closure(deps, {e[2] : e \in {y \in deps : y[1] = x}})

\* a path from x to y along depends-on edges
PathExists(deps, x, y) == y \in DependsOnAll(deps, x)

Acyclic(deps) == \A e \in deps : e[1] \notin DependsOnAll(deps, e[1])

\* any tasks, any acyclic dependency set among them
InitAlg ==
    /\ taskDependency \in {g \in SUBSET CandidateEdges(1..NumTasks) : Acyclic(g)}
    /\ todo \in NewRows(1..NumTasks)
    /\ sequence = NumTasks
    /\ Quiet

NextAlg == WhatIf \/ Analyse

SpecAlg == InitAlg /\ [][NextAlg]_vars

NextOlder == AnalyseOlder \/ Analyse

SpecOlder == InitAlg /\ [][NextOlder]_vars

\* any dependency set among the tasks, cyclic ones included, the tasks all
\* of one duration
InitAny ==
    /\ taskDependency \in SUBSET CandidateEdges(1..NumTasks)
    /\ todo \in {[t \in 1..NumTasks |-> NewTodo(d, FALSE)] : d \in Durations}
    /\ sequence = NumTasks
    /\ Quiet

NextAny == Analyse \/ WhatIfSequence

SpecAny == InitAny /\ [][NextAny]_vars

Analysed == info # <<>> /\ info[1].kind = "analysis"

Asked == info # <<>> /\ info[1].kind = "whatIf"

IndexOf(s, x) == CHOOSE i \in 1..Len(s) : s[i] = x

\* ------------------------------------------------------------------ claims
EarliestStart(n) == MapGet(info[1].cpm.earliestTimes, n)

LatestStart(n) == MapGet(info[1].cpm.latestTimes, n)

DurationOfTask(n) == todo[n].duration

\* C1: after any sequence of addDependency and removeDependency calls run one
\* after the other, the stored edge set is acyclic and holds no edge from a
\* task to itself.
C1_StoredGraphAcyclic ==
    /\ Acyclic(taskDependency)
    /\ \A e \in taskDependency : e[1] # e[2]

\* a would-be cycle was refused and a chain of two edges is stored
C1_Witness ==
    /\ last = Returned("addDependency", "circular", "validate")
    /\ Cardinality(taskDependency) >= 2

\* C2: on an acyclic graph, hasCircularDependency(G, a, b) for distinct tasks
\* a, b is true exactly when G has a path from b to a along depends-on edges.
C2_CycleIffPath ==
    (Asked /\ Acyclic(taskDependency)) =>
        \A e \in CandidateEdges(DOMAIN todo) :
            info[1].cycle[e] <=> PathExists(taskDependency, e[2], e[1])

\* a batch with a refused candidate that closes a path of two edges, and an
\* accepted one
C2_Witness ==
    /\ Asked
    /\ \E e \in CandidateEdges(DOMAIN todo) :
          /\ info[1].cycle[e]
          /\ <<e[2], e[1]>> \notin taskDependency
    /\ \E e \in CandidateEdges(DOMAIN todo) : ~info[1].cycle[e]

\* C3: when two addDependency calls interleave, two edges that are each
\* cycle-safe against the graph they read are never both committed if they
\* form a cycle together: the stored edge set stays acyclic.
C3_ConcurrentAddsStayAcyclic ==
    \A t \in DOMAIN todo : ~PathExists(taskDependency, t, t)

\* C4: when the updateTaskScheduling step of addDependency or removeDependency
\* fails, the edge change of that call is not in storage afterwards.
C4_EdgeChangeUndoneOnFailure ==
    [][(/\ last'.op \in {"addDependency", "removeDependency"}
        /\ last'.outcome = "storage"
        /\ last'.stage = "reschedule")
       => taskDependency' = taskDependency]_vars

\* the rows a reschedule that succeeds leaves for the edge set deps
Rescheduled(todos, deps, day) == updateTaskScheduling(todos, deps, day, NoFault).todo

\* C5: a call in which a storage operation fails leaves every task's
\* earliestStartDate and isOnCriticalPath as they were, and every step leaves
\* the rows either all as before or all as the new schedule.
C5_RescheduleAllOrNothing ==
    [][/\ (last'.outcome = "storage" => todo' = todo)
       /\ \/ todo' = todo
          \/ todo' = Rescheduled(todo, taskDependency', today)]_vars

\* a reschedule failed and left a schedule that a successful one would change
C5_Witness ==
    /\ last.outcome = "storage"
    /\ last.stage = "reschedule"
    /\ \E t \in DOMAIN todo : todo[t].earliestStartDate # <<>>
    /\ Rescheduled(todo, taskDependency, today) # todo

\* C6: on an acyclic graph the list topologicalSort returns holds every
\* predecessor before each task that depends on it.
C6_PredecessorsFirst ==
    (Analysed /\ Acyclic(taskDependency)) =>
        \A e \in taskDependency :
            /\ Includes(info[1].sorted, e[1])
            /\ Includes(info[1].sorted, e[2])
            /\ IndexOf(info[1].sorted, e[2]) < IndexOf(info[1].sorted, e[1])

\* a sorted graph in which a task depends on a task of greater id, so that
\* the order of the ids is not a valid order
C6_Witness ==
    /\ Analysed
    /\ \E e \in taskDependency : e[1] < e[2]
    /\ Cardinality(taskDependency) >= 2

\* C7: on an acyclic graph with positive durations, earliestStart(n) is at
\* most latestStart(n) for every task, and the critical set holds exactly the
\* tasks where the two are equal.
C7_SlackAndCriticalSet ==
    (Analysed /\ Acyclic(taskDependency)) =>
        \A n \in DOMAIN todo :
            /\ EarliestStart(n) <= LatestStart(n)
            /\ (n \in info[1].cpm.criticalPathSet) <=> (EarliestStart(n) = LatestStart(n))

\* a schedule with a critical task and a task with slack
C7_Witness ==
    /\ Analysed
    /\ taskDependency # {}
    /\ \E n \in DOMAIN todo : n \in info[1].cpm.criticalPathSet
    /\ \E n \in DOMAIN todo : EarliestStart(n) < LatestStart(n)

MaxFinish ==
    CHOOSE m \in {EarliestStart(n) + DurationOfTask(n) : n \in DOMAIN todo} :
        \A n \in DOMAIN todo : EarliestStart(n) + DurationOfTask(n) <= m

\* C8: on a non-empty acyclic graph, the project duration of the backward
\* pass and the totalDuration of getCriticalPathInfo both equal the maximum
\* over the tasks n of earliestStart(n) + duration(n).
C8_ProjectDuration ==
    (Analysed /\ Acyclic(taskDependency) /\ DOMAIN todo # {}) =>
        /\ info[1].cpm.projectDuration = MaxFinish
        /\ info[1].totalDuration = MaxFinish

\* the sorted order differs from the order of the ids and durations differ
C8_Witness ==
    /\ Analysed
    /\ info[1].sorted # SetToSeq(DOMAIN todo)
    /\ \E n \in DOMAIN todo, m \in DOMAIN todo : DurationOfTask(n) # DurationOfTask(m)
    /\ info[1].totalDuration > DurationOfTask(1)

\* C9: addDependency(t, d) on a graph in which d already depends on t,
\* directly or transitively, throws the circular-dependency error and writes
\* nothing: the edge set and every task's schedule fields stay as they were.
C9_CycleRejectedWithoutWrite ==
    /\ [](\A t \in DOMAIN todo, d \in DOMAIN todo :
            PathExists(taskDependency, d, t) =>
                LET r == addDependency(todo, taskDependency, today, t, d, NoFault)
                IN /\ r.outcome = "circular"
                   /\ r.deps = taskDependency
                   /\ r.todo = todo)
    /\ [][last' = Returned("addDependency", "circular", "validate")
          => UNCHANGED <<todo, sequence, taskDependency>>]_vars

\* Scenario B: A depends on B, B depends on C, and an addDependency was
\* refused as circular
C9_Witness ==
    /\ taskDependency = {<<1, 2>>, <<2, 3>>}
    /\ last = Returned("addDependency", "circular", "validate")
    /\ addDependency(todo, taskDependency, today, 3, 1, NoFault).outcome = "circular"

ScenarioA ==
    /\ DOMAIN todo = DOMAIN ScenarioDuration
    /\ \A t \in DOMAIN todo : todo[t].duration = ScenarioDuration[t]
    /\ taskDependency = {<<2, 1>>, <<3, 1>>}

\* C10: for A (2 days), B (3 days, depends on A), C (1 day, depends on A),
\* calculateCriticalPath gives earliestStart A = 0, B = 2, C = 2, project
\* duration 5, critical set {A, B} and slack(C) = 2.
C10_ScenarioA ==
    (Analysed /\ ScenarioA) =>
        /\ EarliestStart(1) = 0
        /\ EarliestStart(2) = 2
        /\ EarliestStart(3) = 2
        /\ info[1].cpm.projectDuration = 5
        /\ info[1].cpm.criticalPathSet = {1, 2}
        /\ LatestStart(3) - EarliestStart(3) = 2

C10_Witness == Analysed /\ ScenarioA

\* the longest chain of tasks that ends with n, in days, n included
RECURSIVE LongestInto(_, _, _)
LongestInto(todos, deps, n) ==
    LET before == {LongestInto(todos, deps, e[2]) : e \in {x \in deps : x[1] = n}}
    IN todos[n].duration
         + (IF before = {} THEN 0 ELSE CHOOSE m \in before : \A k \in before : k <= m)

\* the longest chain of tasks that starts with n, in days, n included
RECURSIVE LongestFrom(_, _, _)
LongestFrom(todos, deps, n) ==
    LET after == {LongestFrom(todos, deps, e[1]) : e \in {x \in deps : x[2] = n}}
    IN todos[n].duration
         + (IF after = {} THEN 0 ELSE CHOOSE m \in after : \A k \in after : k <= m)

\* the tasks on a longest chain of the graph: the tasks without slack
CriticalTasks(todos, deps) ==
    LET through(n) == LongestInto(todos, deps, n) + LongestFrom(todos, deps, n)
                        - todos[n].duration
    IN {n \in DOMAIN todos : \A m \in DOMAIN todos : through(m) <= through(n)}

\* C11: when removeDependency and its reschedule have completed, the stored
\* isOnCriticalPath of every task, endpoint of the removed edge or not, says
\* whether the task is in the critical set of the graph without that edge.
C11_FlagsOfAllTasksAfterRemove ==
    [][last' = Returned("removeDependency", "success", "done")
       => \A t \in DOMAIN todo' :
             todo'[t].isOnCriticalPath <=> t \in CriticalTasks(todo', taskDependency')]_vars

\* Scenario A after the edge B depends on A was removed: C, no endpoint of
\* that edge, is now flagged critical
C11_Witness ==
    /\ last = Returned("removeDependency", "success", "done")
    /\ \A t \in DOMAIN todo : todo[t].duration = ScenarioDuration[t]
    /\ taskDependency = {<<3, 1>>}
    /\ todo[3].isOnCriticalPath
    /\ todo[2].isOnCriticalPath

\* C12 as stated: of two updateTaskScheduling calls in succession, with no
\* change to tasks, durations or edges in between, the second leaves every
\* task's earliestStartDate and isOnCriticalPath as the first left them.
C12_SecondRescheduleChangesNothing ==
    [][(/\ last = Returned("updateTaskScheduling", "success", "done")
        /\ last' = Returned("updateTaskScheduling", "success", "done"))
       => \A t \in DOMAIN todo :
             /\ todo'[t].earliestStartDate = todo[t].earliestStartDate
             /\ todo'[t].isOnCriticalPath = todo[t].isOnCriticalPath]_vars

\* C12 amended: after a successful updateTaskScheduling, a second call on the
\* same calendar day, with no change to tasks, durations or edges in between,
\* leaves every task's earliestStartDate and isOnCriticalPath as they are; on
\* a later day isOnCriticalPath is still left as it is.
C12_SecondRescheduleSameDay ==
    [][(last' = Returned("updateTaskScheduling", "success", "done") /\ today' = today)
       => /\ Rescheduled(todo', taskDependency', today') = todo'
          /\ \A day \in today'..MaxDay, t \in DOMAIN todo' :
                Rescheduled(todo', taskDependency', day)[t].isOnCriticalPath
                    = todo'[t].isOnCriticalPath]_vars

\* a reschedule on a later day than the stored schedule was written on, with
\* a task that starts after the first day of the project
C12_Witness ==
    /\ last = Returned("updateTaskScheduling", "success", "done")
    /\ today > 0
    /\ \E t \in DOMAIN todo : todo[t].earliestStartDate = <<today>>
    /\ \E t \in DOMAIN todo : todo[t].earliestStartDate # <<today>>

\* C13: addDependency(t, t) throws its validation error for every task t, before
\* any storage access (whatever storage operation would fail), and writes
\* nothing; no stored edge goes from a task to itself.
C13_SelfDependencyRejected ==
    /\ [](\A t \in DOMAIN todo, fault \in {NoFault} \cup AddFaults(todo) :
            addDependency(todo, taskDependency, today, t, t, fault)
                = Thrown("self", "validate", todo, taskDependency))
    /\ [][last' = Returned("addDependency", "self", "validate")
          => UNCHANGED <<todo, sequence, taskDependency, draftDependency>>]_vars
    /\ [](\A e \in taskDependency : e[1] # e[2])

\* addDependency(t, t) was refused while edges are stored
C13_Witness ==
    /\ last = Returned("addDependency", "self", "validate")
    /\ taskDependency # {}

\* C14: addDependency(t, d) for a stored edge (t, d) throws the
\* already-exists error and changes nothing: the edge rows and every task's
\* schedule fields stay as they were.
C14_DuplicateRejected ==
    /\ [](\A e \in taskDependency :
            addDependency(todo, taskDependency, today, e[1], e[2], NoFault)
                = Thrown("duplicate", "validate", todo, taskDependency))
    /\ [][last' = Returned("addDependency", "duplicate", "validate")
          => UNCHANGED <<todo, sequence, taskDependency, draftDependency>>]_vars

\* a stored edge was added again and refused; the stored schedule is the one
\* a reschedule would write
C14_Witness ==
    /\ last = Returned("addDependency", "duplicate", "validate")
    /\ Cardinality(taskDependency) >= 2
    /\ Rescheduled(todo, taskDependency, today) = todo

\* C15: removeDependency(t, d) for an edge that is not stored throws nothing,
\* leaves the edge set as it is and still reschedules; a second
\* removeDependency(t, d) after a first leaves the rows that a single call
\* leaves.
C15_RemoveIdempotent ==
    /\ [](\A t \in DOMAIN todo, d \in DOMAIN todo :
            LET once == removeDependency(todo, taskDependency, today, t, d, NoFault)
            IN /\ <<t, d>> \notin taskDependency =>
                     /\ once.outcome = "success"
                     /\ once.deps = taskDependency
                     /\ once.todo = Rescheduled(todo, taskDependency, today)
               /\ \A day \in today..MaxDay :
                     removeDependency(once.todo, once.deps, day, t, d, NoFault)
                         = removeDependency(todo, taskDependency, day, t, d, NoFault))
    /\ [][(/\ last'.op = "removeDependency"
            /\ today' = today
            /\ taskDependency' = taskDependency)
          => /\ last' = Returned("removeDependency", "success", "done")
             /\ todo' = Rescheduled(todo, taskDependency, today)]_vars

\* removeDependency returned for an edge that was not stored (three tasks
\* have at most three edges without a cycle), on a later day than the
\* schedule before it was written on
C15_Witness ==
    /\ last = Returned("removeDependency", "success", "done")
    /\ Cardinality(taskDependency) = 3
    /\ today > 0
    /\ \A t \in DOMAIN todo : todo[t].earliestStartDate # <<>>
                                 /\ todo[t].earliestStartDate[1] >= today

\* C16: a task create or update request with a zero or negative duration
\* writes nothing, so every stored task has a duration of at least one day
\* after any sequence of create, update and bulk-preview ADD_TASK requests.
C16_StoredDurationsPositive ==
    \A t \in DOMAIN todo : todo[t].duration >= 1

\* C17: topologicalSort returns after at most one dequeue per task, no task
\* twice, and its result holds every task of the graph exactly when the
\* graph is acyclic.
C17_SortCompleteIffAcyclic ==
    Analysed =>
        /\ Len(info[1].sorted) <= Cardinality(DOMAIN todo)
        /\ \A i \in 1..Len(info[1].sorted), j \in 1..Len(info[1].sorted) :
              i # j => info[1].sorted[i] # info[1].sorted[j]
        /\ Range(info[1].sorted) \subseteq DOMAIN todo
        /\ (Range(info[1].sorted) = DOMAIN todo) <=> Acyclic(taskDependency)

\* a graph with a cycle of which topologicalSort emits some tasks, not all
C17_Witness ==
    /\ Analysed
    /\ ~Acyclic(taskDependency)
    /\ info[1].sorted # <<>>
    /\ Len(info[1].sorted) < Cardinality(DOMAIN todo)

\* C18: a reschedule of a stored graph that holds a cycle, on which
\* topologicalSort emits fewer tasks than there are, ends with an error and
\* writes no earliestStartDate and no isOnCriticalPath.
C18_IncompleteSortAborts ==
    [][(UpdateScheduling(NoFault) /\ ~Acyclic(taskDependency))
          => (last'.outcome # "success" /\ todo' = todo)]_vars

Sequenced == info # <<>> /\ info[1].kind = "sequence"

\* C19: after hasCircularDependency was called for one candidate edge after
\* the other on the same graph, every predecessor list of the graph's
\* adjacency list is what it was before the first call, and every call
\* returned what it returns on the graph as first built.
C19_CycleCheckLeavesGraph ==
    Sequenced =>
        LET graph == buildDependencyGraph(todo, taskDependency)
        IN /\ info[1].adjacencyList = graph.adjacencyList
           /\ \A i \in 1..Len(info[1].candidates) :
                 info[1].cycle[i] = hasCircularDependency(graph, info[1].candidates[i][1],
                                                          info[1].candidates[i][2])

\* calls on a graph with edges, of which some found a cycle, and a later one
\* found none
C19_Witness ==
    /\ Sequenced
    /\ taskDependency # {}
    /\ \E i \in 1..Len(info[1].cycle), j \in 1..Len(info[1].cycle) :
          i < j /\ info[1].cycle[i] /\ ~info[1].cycle[j]

\* C20: after a bulk preview the committed and draft edges together are
\* acyclic, an ADD_DEPENDENCY that would close a cycle with an edge of the same
\* batch having failed.
C20_PreviewKeepsGraphAcyclic ==
    Previewed => Acyclic(taskDependency)

\* what a successful accept or reject of op leaves in the tables
ReviewEffect(op, action, todos, deps, drafts) ==
    LET edge == <<op.fromId, op.toId>>
        stored == (op.type \in {"ADD_TASK", "ADD_DEPENDENCY"}) = (action = "accept")
    IN IF op.type \in {"ADD_TASK", "DELETE_TASK"}
       THEN IF stored THEN op.taskId \in DOMAIN todos /\ ~todos[op.taskId].isDraft
            ELSE op.taskId \notin DOMAIN todos
       ELSE IF stored THEN edge \in deps /\ edge \notin drafts
            ELSE edge \notin deps

StatusesOf(operations) == {operations[i].status : i \in 1..Len(operations)}

\* the rows after the reject, in the order of the response, of every
\* operation from the i-th on that the preview applied
RECURSIVE RejectEach(_, _, _)
RejectEach(rows, operations, i) ==
    IF i > Len(operations) THEN rows
    ELSE IF operations[i].status # "success" THEN RejectEach(rows, operations, i + 1)
    ELSE Bind(handleOperation(rows, operations[i].op, "reject"), LAMBDA r :
            RejectEach(Rows(r.todo, r.deps, r.drafts), operations, i + 1))

\* C21: an accept or reject that succeeds on a successfully previewed
\* operation leaves an added row committed or gone, a deleted row gone or
\* committed again; the review of the only operation of a batch succeeds;
\* and a preview of the stored rows followed by the reject of every operation
\* it applied gives back the tasks and the edges stored before the preview.
C21_AcceptCommitsRejectUndoes ==
    /\ [][\A i \in 1..MaxBatch, action \in {"accept", "reject"} :
             (/\ HandleOperation(i, action, TRUE)
              /\ info[1].operations[i].status = "success")
             => /\ last'.outcome = "success"
                   => ReviewEffect(info[1].operations[i].op, action, todo',
                                   taskDependency', draftDependency')
                /\ Len(info[1].operations) = 1 => last'.outcome = "success"]_vars
    /\ [](\A operations \in Batches :
             sequence + AddedTasks(operations) <= MaxTodos
                => Bind(bulkPreview(todo, taskDependency, draftDependency, sequence,
                                    operations),
                        LAMBDA tx : RejectEach(Rows(tx.todo, tx.deps, tx.drafts),
                                               tx.operations, 1))
                      = Rows(todo, taskDependency, draftDependency))

\* C23: when every operation of the preview succeeded and the requests so
\* far were all accepts, or all rejects, the next accept, or reject, of an
\* operation not yet reviewed succeeds.
C23_ReviewOfWholeBatchSucceeds ==
    [][\A i \in 1..MaxBatch, action \in {"accept", "reject"} :
          (/\ HandleOperation(i, action, TRUE)
           /\ info[1].operations[i].status = "success"
           /\ StatusesOf(info[1].operations) \subseteq {"success", Reviewed("success", action)})
          => last'.outcome = "success"]_vars

CommittedTodo == [t \in {x \in DOMAIN todo : ~todo[x].isDraft} |-> todo[t]]

CommittedEdges ==
    {e \in taskDependency \ draftDependency :
        e[1] \in DOMAIN CommittedTodo /\ e[2] \in DOMAIN CommittedTodo}

OnlyAdditionsPending ==
    /\ Previewed
    /\ \A i \in 1..Len(info[1].operations) :
          info[1].operations[i].status = "success"
             => info[1].operations[i].op.type \in {"ADD_TASK", "ADD_DEPENDENCY"}

\* C22: while the tasks and edges that a preview added are unreviewed, a
\* reschedule gives every committed task the earliestStartDate and
\* isOnCriticalPath computed from the committed tasks and edges alone.
C22_DraftsHaveNoEffect ==
    [][(UpdateScheduling(NoFault) /\ OnlyAdditionsPending)
          => \A t \in DOMAIN CommittedTodo :
                todo'[t] = updateTaskScheduling(CommittedTodo, CommittedEdges, today,
                                                NoFault).todo[t]]_vars

Predecessors(n) == {e[2] : e \in {x \in taskDependency : x[1] = n}}

Successors(n) == {e[1] : e \in {x \in taskDependency : x[2] = n}}

Greatest(S) == CHOOSE m \in S : \A k \in S : k <= m

Least(S) == CHOOSE m \in S : \A k \in S : m <= k

\* C24: on an acyclic graph the maps of calculateCriticalPath satisfy the
\* recurrences of the critical path method: earliestStart(n) is 0 for a task
\* without predecessor and else the greatest earliestStart(p) + duration(p)
\* of its predecessors p; latestStart(n) is latestFinish(n) - duration(n),
\* latestFinish(n) being the project duration for a task without successor and
\* else the least latestStart(s) of its successors s.
C24_ReferenceRecurrences ==
    (Analysed /\ Acyclic(taskDependency)) =>
        \A n \in DOMAIN todo :
            /\ EarliestStart(n) =
                 IF Predecessors(n) = {} THEN 0
                 ELSE Greatest({EarliestStart(p) + DurationOfTask(p) : p \in Predecessors(n)})
            /\ LatestStart(n) + DurationOfTask(n) =
                 IF Successors(n) = {} THEN info[1].cpm.projectDuration
                 ELSE Least({LatestStart(x) : x \in Successors(n)})

\* a task with two predecessors that finish on different days, and a task
\* with two successors that must start on different days
C24_Witness ==
    /\ Analysed
    /\ \E n \in DOMAIN todo : \E p \in Predecessors(n), q \in Predecessors(n) :
          EarliestStart(p) + DurationOfTask(p) < EarliestStart(q) + DurationOfTask(q)
    /\ \E n \in DOMAIN todo : \E x \in Successors(n), y \in Successors(n) :
          LatestStart(x) < LatestStart(y)

\* C25: a reschedule that succeeds leaves at every stored task, the graph
\* being the acyclic one stored when it was called, earliestStartDate = the
\* day of the call + the length of the longest chain of predecessors of the
\* task, and isOnCriticalPath = whether the task lies on a longest chain.
C25_EveryTaskGetsItsSchedule ==
    [][(UpdateScheduling(NoFault) /\ last'.outcome = "success")
          => /\ DOMAIN todo' = DOMAIN todo
             /\ \A t \in DOMAIN todo :
                   /\ todo'[t].earliestStartDate =
                        <<today + LongestInto(todo, taskDependency, t) - todo[t].duration>>
                   /\ todo'[t].isOnCriticalPath =
                        (t \in CriticalTasks(todo, taskDependency))
                   /\ todo'[t].duration = todo[t].duration]_vars

\* a reschedule on a later day than the first, that gave a task a later day
\* than its own and left a task off the critical path
C25_Witness ==
    /\ last = Returned("updateTaskScheduling", "success", "done")
    /\ today > 0
    /\ taskDependency # {}
    /\ \E t \in DOMAIN todo : todo[t].earliestStartDate # <<>>
                                 /\ todo[t].earliestStartDate[1] > today
    /\ \E t \in DOMAIN todo : ~todo[t].isOnCriticalPath
    /\ \A t \in DOMAIN todo :
          todo[t].earliestStartDate =
             <<today + LongestInto(todo, taskDependency, t) - todo[t].duration>>

AnalysedOlder == info # <<>> /\ info[1].kind = "older"

\* C26: on an acyclic graph the older topologicalSort, whose in-degree of a
\* task is the number of tasks that depend on it, returns every task once
\* and, for every edge, the dependent task before the task it depends on; the
\* older forward pass, reading that order, finds no earliest start of a
\* predecessor and gives each task the longest duration among its
\* predecessors, 0 without one.
C26_OlderSortDependentsFirst ==
    (AnalysedOlder /\ Acyclic(taskDependency)) =>
        /\ Len(info[1].sorted) = Cardinality(DOMAIN todo)
        /\ Range(info[1].sorted) = DOMAIN todo
        /\ \A e \in taskDependency :
              IndexOf(info[1].sorted, e[1]) < IndexOf(info[1].sorted, e[2])
        /\ \A n \in DOMAIN todo :
              MapGet(info[1].earliestTimes, n) =
                 IF Predecessors(n) = {} THEN 0
                 ELSE Greatest({DurationOfTask(p) : p \in Predecessors(n)})

\* a chain of three tasks, whose last task the older forward pass starts
\* before its predecessor can finish
C26_Witness ==
    /\ AnalysedOlder
    /\ \E e \in taskDependency, f \in taskDependency :
          /\ e[2] = f[1]
          /\ MapGet(info[1].earliestTimes, e[1])
                < LongestInto(todo, taskDependency, e[1]) - DurationOfTask(e[1])

AllReturned == \A p \in Procs : pc[p] = "idle"

\* C27: once every overlapping call has returned, and some reschedule has
\* written, the stored earliestStartDate and isOnCriticalPath of every task
\* are those of the stored graph: a reschedule now would change nothing.
C27_NoStaleScheduleAfterOverlap ==
    (AllReturned /\ \E t \in DOMAIN todo : todo[t].earliestStartDate # <<>>)
        => updateTaskScheduling(todo, taskDependency, today, NoFault).todo = todo

MutatingRoutes ==
    {"createTodo", "patchTodo", "deleteTodo", "addDependency", "removeDependency",
     "accept", "reject"}

C29_EdgesJoinStoredTasks ==
    /\ \A e \in taskDependency : e[1] \in DOMAIN todo /\ e[2] \in DOMAIN todo
    /\ draftDependency \subseteq taskDependency
    /\ LET graph == buildDependencyGraph(todo, taskDependency)
       IN /\ \A i \in 1..Len(graph.adjacencyList) :
                /\ MapHas(graph.nodes, graph.adjacencyList[i][1])
                /\ \A j \in 1..Len(graph.adjacencyList[i][2]) :
                      MapHas(graph.nodes, graph.adjacencyList[i][2][j])
          /\ \A a \in DOMAIN todo, b \in DOMAIN todo :
                Includes(MapGet(graph.nodes, a).dependencies, b)
                   <=> Includes(MapGet(graph.nodes, b).dependentTasks, a)

\* the deletion of a task was previewed and accepted, the task is gone, and
\* an edge between two of the tasks that remain is stored
C29_Witness ==
    /\ Previewed
    /\ last = Returned("accept", "success", "done")
    /\ info[1].operations[1].op.type = "DELETE_TASK"
    /\ info[1].operations[1].op.taskId \notin DOMAIN todo
    /\ Cardinality(DOMAIN todo) >= 2
    /\ taskDependency # {}

CriticalSet == info[1].cpm.criticalPathSet

\* a chain of critical tasks from n, each depending on the one before, to a
\* task nothing depends on, whose durations sum to left
RECURSIVE CriticalChainFrom(_, _)
CriticalChainFrom(n, left) ==
    /\ n \in CriticalSet
    /\ \/ Successors(n) = {} /\ DurationOfTask(n) = left
       \/ /\ DurationOfTask(n) < left
          /\ \E x \in Successors(n) : CriticalChainFrom(x, left - DurationOfTask(n))

\* C30: on a non-empty acyclic graph the critical set of calculateCriticalPath
\* is not empty and holds a whole chain, from a task without predecessor to a
\* task without successor, each task depending on the one before, whose
\* durations add up to the project duration.
C30_CriticalSetHoldsAWholeChain ==
    (Analysed /\ Acyclic(taskDependency) /\ DOMAIN todo # {}) =>
        /\ CriticalSet # {}
        /\ \E n \in DOMAIN todo :
              /\ Predecessors(n) = {}
              /\ CriticalChainFrom(n, info[1].cpm.projectDuration)

\* an analysis whose critical set holds a task without predecessor that has
\* one successor on the set and another off it
C30_Witness ==
    /\ Analysed
    /\ \E n \in CriticalSet :
          /\ Predecessors(n) = {}
          /\ Successors(n) \cap CriticalSet # {}
          /\ Successors(n) \ CriticalSet # {}

====
